---- MODULE Spec2Model ----
(***************************************************************************)
(* A model of the three-tier face recognition pipeline:                    *)
(*   web-tier/controller.py  the autoscaling controller (Fleet Controller) *)
(*   web-tier/server.py      the web server (Front Door / Correlator)      *)
(*   app-tier/backend.py     the worker (Worker Pipeline)                  *)
(* Each tier has its own specification (SpecCtl, SpecWeb, SpecWorker): the *)
(* tiers are separate processes that share only the queues, the buckets    *)
(* and the instance control surface.                                       *)
(***************************************************************************)
EXTENDS Integers, Sequences, FiniteSets, TLC

VARIABLES
    \* ---- controller.py: the EC2 control surface and the controller's fields
    instance_state,            \* EC2: instance id -> lifecycle state
    circuit_breaker_failures,  \* self.circuit_breaker_failures
    since_last_failure,        \* time.time() - self.last_circuit_breaker_failure,
                               \* in seconds, saturated at circuit_breaker_timeout
                               \* (the code only compares it with that timeout)
    consecutive_errors,        \* start_monitoring: consecutive_errors
    cpc,                       \* the controller's position in start_monitoring
    breaker,                   \* what the last _is_circuit_breaker_open call did
    req_count,                 \* start_monitoring: req_count (first sample)
    total_pending,             \* start_monitoring: total_pending (first sample)
    active_instances,          \* start_monitoring: active_instances (ids, in order)
    idle_instances,            \* start_monitoring: idle_instances (ids, in order)
    start_cmds,                \* start_instances calls of this tick, in order,
                               \* each with the state the instance was in
    resample,                  \* the re-sampled <<req_count, resp_count>>, or NoSample
    stop_cmds,                 \* stop_instances calls of this tick, in order
    read_failed,               \* whether a queue-depth read of this tick failed
    \* ---- server.py: the web server, its queues and its bucket
    sub,                       \* the request threads of process_post_request
    pending_requests,          \* the dict pending_requests, in insertion order
    input_bucket,              \* the keys stored in INPUT_BUCKET
    request_queue,             \* the jobs on REQUEST_QUEUE
    response_queue,            \* the Result Messages on RESPONSE_QUEUE
    deliveries,                \* how often retrieve_responses received each message
    unprocessable,             \* the messages on RESPONSE_QUEUE that are no Result
                               \* Message: not JSON, no filename, no result
    unprocessable_receives,    \* how often retrieve_responses received one of them
    \* ---- backend.py: the workers, the request queue as they see it, the DLQ
    worker,                    \* each worker process: its position in main() and
                               \* handle_request, its locals, and what its
                               \* current run of handle_request has done
    job_body,                  \* the body of each message on REQUEST_QUEUE
    visibility,                \* each message: absent, visible, in_flight, deleted
    receives,                  \* how often each message was received for processing
    dlq,                       \* the records on the DLQ, in order
    output_bucket,             \* the objects in OUTPUT_BUCKET
    published                  \* the Result Messages sent to RESPONSE_QUEUE, in order

ctlVars == <<instance_state, circuit_breaker_failures, since_last_failure,
             consecutive_errors, cpc, breaker, req_count, total_pending,
             active_instances, idle_instances, start_cmds, resample, stop_cmds,
             read_failed>>

webVars == <<sub, pending_requests, input_bucket, request_queue,
             response_queue, deliveries, unprocessable, unprocessable_receives>>

workerVars == <<worker, job_body, visibility, receives, dlq, output_bucket,
                published>>

vars == <<ctlVars, webVars, workerVars>>

\* what a step of one tier leaves alone: the other tiers
notCtl == <<webVars, workerVars>>
notWeb == <<ctlVars, workerVars>>
notWorker == <<ctlVars, webVars>>

----------------------------------------------------------------------------
(* Bounds of the model *)

NumInstances == 3     \* app-tier instances carrying the tag app-tier-instance-*
MaxDepth == 3         \* largest request-queue depth the queue service reports
MaxRespDepth == 1     \* largest response-queue depth the queue service reports
NumSubmissions == 2   \* POST requests the web server handles
MaxDeliveries == 2    \* times the response queue delivers one message
MaxUnprocessable == 1 \* unprocessable messages on the response queue at a time
MaxUnprocessableReceives == 2  \* times the response queue delivers them
NumWorkers == 2       \* worker processes (app-tier instances running backend.py)
NumJobs == 1          \* messages put on the request queue
MaxReceives == 2      \* times the request queue delivers one message

(* Program constants *)

max_instances == 2              \* MAX_INSTANCES (environment; default 15)
check_interval == 20            \* CHECK_INTERVAL, seconds (environment; default 5)
circuit_breaker_threshold == 5
circuit_breaker_timeout == 60   \* seconds
max_consecutive_errors == 10
MAX_FILE_SIZE == 10485760       \* bytes (environment; this is the default)
MAX_RETRIES == 3                \* backend.py (environment; this is the default)
max_consecutive_failures == 5   \* backend.py, main()

Min(a, b) == IF a < b THEN a ELSE b

Range(s) == {s[i] : i \in 1..Len(s)}

----------------------------------------------------------------------------
(* controller.py *)

Instances == 1..NumInstances

LifecycleStates == {"stopped", "pending", "running", "stopping"}

NoSample == <<>>

\* describe_instances answers in ascending id order here
RECURSIVE SortedSeq(_)
SortedSeq(S) ==
    IF S = {} THEN <<>>
    ELSE LET m == CHOOSE x \in S : \A y \in S : x <= y
         IN <<m>> \o SortedSeq(S \ {m})

\* the instances describe_instances returns for a state filter
InState(states) == {i \in Instances : instance_state[i] \in states}

\* time.sleep(d) and everything else that lets time pass
Elapse(s, d) == Min(s + d, circuit_breaker_timeout)

\* _record_failure: the counter goes up and the failure is timestamped
RecordFailure(b) == [f |-> b.f + 1, s |-> 0]

\* _record_success: a non-zero counter is reset
RecordSuccess(b) == [f |-> 0, s |-> b.s]

\* the breaker's fields as one value
Breaker == [f |-> circuit_breaker_failures, s |-> since_last_failure]

SetBreaker(b) ==
    /\ circuit_breaker_failures' = b.f
    /\ since_last_failure' = b.s

\* a breaker that is still open when exactly the timeout has elapsed
IsCircuitBreakerOpen_Inclusive(b) ==
    /\ b.f >= circuit_breaker_threshold
    /\ b.s <= circuit_breaker_timeout

\* _is_circuit_breaker_open: the value returned
IsCircuitBreakerOpen(b) ==
    /\ b.f >= circuit_breaker_threshold
    /\ b.s < circuit_breaker_timeout

\* _is_circuit_breaker_open: the counter it leaves (reset after the timeout)
CircuitBreakerAfterCheck(b) ==
    IF b.f >= circuit_breaker_threshold /\ ~(b.s < circuit_breaker_timeout)
    THEN [f |-> 0, s |-> b.s]
    ELSE b

\* _check_queue_length: what get_queue_attributes can answer. ok = FALSE: every
\* attempt raised ClientError, or one raised another exception
ReadOutcomes(max) ==
    {[ok |-> TRUE, n |-> d] : d \in 0..max} \cup {[ok |-> FALSE, n |-> 0]}

\* _check_queue_length: the value returned (0 when the read failed)
CheckQueueLength(o) == IF o.ok THEN o.n ELSE 0

\* _check_queue_length: its effect on the breaker
AfterQueueRead(b, o) == IF o.ok THEN b ELSE RecordFailure(b)

\* start_monitoring, line 238: the scale-up condition
ScaleUpNeeded(req, nactive) ==
    req > 0 /\ nactive < Min(req, max_instances)

\* needed without the max_instances cap
Available_Uncapped(req, nactive, nidle) ==
    Min(req - nactive, nidle)

\* start_monitoring, lines 239-240: needed and available
Available(req, nactive, nidle) ==
    LET needed == Min(req - nactive, max_instances - nactive)
    IN Min(needed, nidle)

\* start_monitoring, line 253: the scale-down condition
ScaleDownCandidate(req, total, nactive) ==
    ~ScaleUpNeeded(req, nactive) /\ total = 0 /\ nactive > 0

\* a re-sample that forgets the response queue
ScaleDownConfirmed_RequestOnly(re_req, re_resp) == re_req = 0

\* start_monitoring, line 258: the re-sample confirms the empty queues
ScaleDownConfirmed(re_req, re_resp) == re_req + re_resp = 0

\* the loop's error back-off, line 282
ErrorSleep(n) ==
    LET e == Min(n - 1, 5)
        pow == CASE e = 0 -> 1 [] e = 1 -> 2 [] e = 2 -> 4
                 [] e = 3 -> 8 [] e = 4 -> 16 [] OTHER -> 32
    IN Min(check_interval * pow, 60)

CtlInit ==
    /\ instance_state = [i \in Instances |-> "stopped"]
    /\ circuit_breaker_failures = 0
    /\ since_last_failure = circuit_breaker_timeout
    /\ consecutive_errors = 0
    /\ cpc = "check"
    /\ breaker = "closed"
    /\ req_count = 0
    /\ total_pending = 0
    /\ active_instances = <<>>
    /\ idle_instances = <<>>
    /\ start_cmds = <<>>
    /\ resample = NoSample
    /\ stop_cmds = <<>>
    /\ read_failed = FALSE

\* the per-tick locals go out of scope as the iteration ends
ClearTick ==
    /\ req_count' = 0
    /\ total_pending' = 0
    /\ active_instances' = <<>>
    /\ idle_instances' = <<>>
    /\ start_cmds' = <<>>
    /\ resample' = NoSample
    /\ stop_cmds' = <<>>
    /\ read_failed' = FALSE

tickLocals == <<req_count, total_pending, active_instances, idle_instances,
                start_cmds, resample, stop_cmds, read_failed>>

\* CheckBreaker without the skip: an open breaker is noted and the tick goes on
CheckBreaker_NoSkip ==
    /\ UNCHANGED notCtl
    /\ cpc = "check"
    /\ UNCHANGED <<instance_state, consecutive_errors, tickLocals>>
    /\ IF IsCircuitBreakerOpen(Breaker)
       THEN /\ breaker' = "open"
            /\ UNCHANGED <<circuit_breaker_failures, since_last_failure>>
            /\ cpc' = "sample"
       ELSE /\ breaker' = IF CircuitBreakerAfterCheck(Breaker) = Breaker
                          THEN "closed" ELSE "reset"
            /\ SetBreaker(CircuitBreakerAfterCheck(Breaker))
            /\ cpc' = "sample"

\* start_monitoring, lines 219-221: the breaker check that opens every tick
CheckBreaker ==
    /\ UNCHANGED notCtl
    /\ cpc = "check"
    /\ UNCHANGED <<instance_state, consecutive_errors, tickLocals>>
    /\ IF IsCircuitBreakerOpen(Breaker)
       THEN /\ breaker' = "open"
            /\ UNCHANGED <<circuit_breaker_failures, since_last_failure>>
            /\ cpc' = "skip"
       ELSE /\ breaker' = IF CircuitBreakerAfterCheck(Breaker) = Breaker
                          THEN "closed" ELSE "reset"
            /\ SetBreaker(CircuitBreakerAfterCheck(Breaker))
            /\ cpc' = "sample"

\* start_monitoring, lines 222-223: the breaker is open, the tick is skipped
\* and the loop sleeps check_interval * 2
SkipTick ==
    /\ UNCHANGED notCtl
    /\ cpc = "skip"
    /\ since_last_failure' = Elapse(since_last_failure, check_interval * 2)
    /\ cpc' = "check"
    /\ UNCHANGED <<instance_state, circuit_breaker_failures, consecutive_errors,
                   breaker, tickLocals>>

\* LoopError without the limit: the loop backs off and goes on after any
\* number of consecutive errors
LoopError_NoLimit(b) ==
    /\ consecutive_errors' = consecutive_errors + 1
    /\ SetBreaker([RecordFailure(b) EXCEPT
           !.s = Elapse(@, ErrorSleep(consecutive_errors + 1))])
    /\ cpc' = "check"

\* start_monitoring, lines 272-284: an exception escaped the tick
LoopError(b) ==
    /\ consecutive_errors' = consecutive_errors + 1
    /\ IF consecutive_errors + 1 >= max_consecutive_errors
       THEN /\ SetBreaker(RecordFailure(b))
            /\ cpc' = "raised"
       ELSE /\ SetBreaker([RecordFailure(b) EXCEPT
                  !.s = Elapse(@, ErrorSleep(consecutive_errors + 1))])
            /\ cpc' = "check"

\* start_monitoring, lines 225-253: the samples of a tick and the branch taken.
\* _count_running_instances answers "ok", "client_error" (caught: an empty
\* list, no failure recorded) or "error" (any other exception: not caught
\* there, it escapes to the loop). _find_stopped_instances answers "ok" or
\* "error" (caught: an empty list, a failure recorded).
Sample ==
    /\ UNCHANGED notCtl
    /\ cpc = "sample"
    /\ \E q1 \in ReadOutcomes(MaxDepth), q2 \in ReadOutcomes(MaxRespDepth),
          ro \in {"ok", "client_error", "error"}, so \in {"ok", "error"} :
         LET req == CheckQueueLength(q1)
             resp == CheckQueueLength(q2)
             b2 == AfterQueueRead(AfterQueueRead(Breaker, q1), q2)
             active == IF ro = "ok"
                       THEN SortedSeq(InState({"pending", "running"}))
                       ELSE <<>>
             idle == IF so = "ok" THEN SortedSeq(InState({"stopped"})) ELSE <<>>
             b3 == IF so = "ok" THEN b2 ELSE RecordFailure(b2)
         IN /\ UNCHANGED <<instance_state, breaker>>
            /\ IF ro = "error"
               THEN /\ LoopError(b2)
                    /\ UNCHANGED tickLocals
               ELSE /\ req_count' = req
                    /\ total_pending' = req + resp
                    /\ read_failed' = (~q1.ok \/ ~q2.ok)
                    /\ UNCHANGED <<start_cmds, resample, stop_cmds>>
                    /\ active_instances' = active
                    /\ idle_instances' = idle
                    /\ SetBreaker(b3)
                    /\ UNCHANGED consecutive_errors
                    /\ cpc' = IF ScaleUpNeeded(req, Len(active))
                                 /\ Available(req, Len(active), Len(idle)) > 0
                              THEN "launch"
                              ELSE IF ScaleDownCandidate(req, req + resp, Len(active))
                              THEN "resample"
                              ELSE "sleep"

\* what start_instances can answer: the error codes _launch_instance tells
\* apart. The listing the instance was selected from is eventually consistent,
\* so "already starting or running" can be the answer for a listed instance.
LaunchOutcomes(st) ==
    {"ok", "incorrect_state", "not_found", "error"}

\* _launch_instance with "not found" counted by the breaker
AfterLaunch_NotFoundCounts(b, out) ==
    CASE out = "ok" -> RecordSuccess(b)
      [] out = "incorrect_state" -> b
      [] OTHER -> RecordFailure(b)

\* _launch_instance: its effect on the breaker
AfterLaunch(b, out) ==
    CASE out = "ok" -> RecordSuccess(b)
      [] out \in {"incorrect_state", "not_found"} -> b
      [] OTHER -> RecordFailure(b)

\* _launch_instance: the value it returns
LaunchReturns(out) == out \in {"ok", "incorrect_state"}

\* start_monitoring, lines 243-247: one _launch_instance(idle_instances[i]['id'])
Launch ==
    /\ UNCHANGED notCtl
    /\ cpc = "launch"
    /\ LET i == Len(start_cmds) + 1
           id == idle_instances[i]
           n == Available(req_count, Len(active_instances), Len(idle_instances))
       IN \E out \in LaunchOutcomes(instance_state[id]) :
            /\ start_cmds' = Append(start_cmds, [id |-> id, was |-> instance_state[id],
                                              out |-> out, ret |-> LaunchReturns(out)])
            /\ instance_state' =
                 IF out = "ok" /\ instance_state[id] = "stopped"
                 THEN [instance_state EXCEPT ![id] = "pending"]
                 ELSE instance_state
            /\ SetBreaker(AfterLaunch(Breaker, out))
            /\ cpc' = IF i < n THEN "launch" ELSE "sleep"
    /\ UNCHANGED <<consecutive_errors, breaker, req_count, total_pending,
                   active_instances, idle_instances, resample, stop_cmds,
                   read_failed>>

\* start_monitoring, lines 254-258: the pause and the re-sample
Resample ==
    /\ UNCHANGED notCtl
    /\ cpc = "resample"
    /\ \E q3 \in ReadOutcomes(MaxDepth), q4 \in ReadOutcomes(MaxRespDepth) :
         LET re_req == CheckQueueLength(q3)
             re_resp == CheckQueueLength(q4)
         IN /\ resample' = <<re_req, re_resp>>
            /\ read_failed' = (read_failed \/ ~q3.ok \/ ~q4.ok)
            /\ SetBreaker(AfterQueueRead(AfterQueueRead(Breaker, q3), q4))
            /\ cpc' = IF ScaleDownConfirmed(re_req, re_resp) THEN "shutdown" ELSE "sleep"
    /\ UNCHANGED <<instance_state, consecutive_errors, breaker, req_count,
                   total_pending, active_instances, idle_instances, start_cmds,
                   stop_cmds>>

\* _shutdown_instance: its effect on the breaker
AfterShutdown(b, out) ==
    CASE out = "ok" -> RecordSuccess(b)
      [] out \in {"incorrect_state", "not_found"} -> b
      [] OTHER -> RecordFailure(b)

\* what stop_instances can answer for an instance in a given state
ShutdownOutcomes(st) ==
    IF st \in {"pending", "running"}
    THEN {"ok", "not_found", "error"}
    ELSE {"ok", "incorrect_state", "not_found", "error"}

\* start_monitoring, lines 260-264: one _shutdown_instance(instance['id'])
Shutdown ==
    /\ UNCHANGED notCtl
    /\ cpc = "shutdown"
    /\ LET i == Len(stop_cmds) + 1
           id == active_instances[i]
       IN \E out \in ShutdownOutcomes(instance_state[id]) :
            /\ stop_cmds' = Append(stop_cmds, id)
            /\ instance_state' =
                 IF out = "ok" /\ instance_state[id] \in {"pending", "running"}
                 THEN [instance_state EXCEPT ![id] = "stopping"]
                 ELSE instance_state
            /\ SetBreaker(AfterShutdown(Breaker, out))
            /\ cpc' = IF i < Len(active_instances) THEN "shutdown" ELSE "sleep"
    /\ UNCHANGED <<consecutive_errors, breaker, req_count, total_pending,
                   active_instances, idle_instances, start_cmds, resample,
                   read_failed>>

\* start_monitoring, lines 269-286: the tick ends without an escaped exception
EndTick ==
    /\ UNCHANGED notCtl
    /\ cpc = "sleep"
    /\ consecutive_errors' = 0
    /\ since_last_failure' = Elapse(since_last_failure, check_interval)
    /\ cpc' = "check"
    /\ ClearTick
    /\ UNCHANGED <<instance_state, circuit_breaker_failures, breaker>>

\* EC2: a pending instance comes up, a stopping instance comes to rest. No
\* call of a tick after its samples reads an instance's state, so the
\* transitions are taken between ticks.
Settle ==
    /\ UNCHANGED notCtl
    /\ cpc \in {"check", "raised"}
    /\ \E i \in Instances :
         /\ instance_state[i] \in {"pending", "stopping"}
         /\ instance_state' = [instance_state EXCEPT
              ![i] = IF @ = "pending" THEN "running" ELSE "stopped"]
    /\ UNCHANGED <<circuit_breaker_failures, since_last_failure,
                   consecutive_errors, cpc, breaker, tickLocals>>

\* the calls of a tick take time as well: the next check may come later than
\* the sleep alone makes it
TimePasses ==
    /\ UNCHANGED notCtl
    /\ cpc = "check"
    /\ since_last_failure < circuit_breaker_timeout
    /\ since_last_failure' = Elapse(since_last_failure, check_interval)
    /\ UNCHANGED <<instance_state, circuit_breaker_failures, consecutive_errors,
                   cpc, breaker, tickLocals>>

CtlNext ==
    \/ CheckBreaker
    \/ SkipTick
    \/ Sample
    \/ Launch
    \/ Resample
    \/ Shutdown
    \/ EndTick
    \/ Settle
    \/ TimePasses

----------------------------------------------------------------------------
(* server.py *)

Subs == 1..NumSubmissions

ALLOWED_EXTENSIONS == {"png", "jpg", "jpeg", "gif", "bmp"}

\* str.lower on the extensions that occur
Lower(x) ==
    CASE x = "JPG" -> "jpg"
      [] x = "PNG" -> "png"
      [] x = "EXE" -> "exe"
      [] OTHER -> x

\* A file name is the sequence of its parts between the dots: "a.jpg" is
\* <<"a", "jpg">>, "a" is <<"a">>, the empty name is <<>>.
\* allowed_file: '.' in filename and filename.rsplit('.', 1)[1].lower() allowed
allowed_file(filename) ==
    /\ Len(filename) >= 2
    /\ Lower(filename[Len(filename)]) \in ALLOWED_EXTENSIONS

\* validate_file without its size limit
validate_file_NoSizeLimit(file) ==
    IF file.filename = <<>> THEN <<FALSE, "No file provided">>
    ELSE IF ~allowed_file(file.filename) THEN <<FALSE, "File type not allowed">>
    ELSE IF file.size = 0 THEN <<FALSE, "Empty file not allowed">>
    ELSE <<TRUE, "Valid file">>

\* validate_file: <<valid, message>>
validate_file(file) ==
    IF file.filename = <<>> THEN <<FALSE, "No file provided">>
    ELSE IF ~allowed_file(file.filename) THEN <<FALSE, "File type not allowed">>
    ELSE IF file.size > MAX_FILE_SIZE THEN <<FALSE, "File too large">>
    ELSE IF file.size = 0 THEN <<FALSE, "Empty file not allowed">>
    ELSE <<TRUE, "Valid file">>

NoFile == [present |-> FALSE, filename |-> <<>>, size |-> 0]

\* the requests clients send: request.files['inputFile'], when present
Files ==
    { NoFile,
      [present |-> TRUE, filename |-> <<>>, size |-> 2048],
      [present |-> TRUE, filename |-> <<"a", "jpg">>, size |-> 2048],
      [present |-> TRUE, filename |-> <<"a", "png">>, size |-> MAX_FILE_SIZE],
      [present |-> TRUE, filename |-> <<"b", "JPG">>, size |-> 2048],
      [present |-> TRUE, filename |-> <<"bad", "exe">>, size |-> 2048],
      [present |-> TRUE, filename |-> <<"a">>, size |-> 2048],
      [present |-> TRUE, filename |-> <<"a", "jpg">>, size |-> 0],
      [present |-> TRUE, filename |-> <<"a", "jpg">>, size |-> MAX_FILE_SIZE + 1] }

\* what face_match can answer
Results == {"Alice", "Bob"}

\* the value None of a pending entry
None == <<>>

\* f"{basename}:{result}"
Formatted(basename, result) == <<basename, result>>

\* dict: the keys in order
Keys(d) == [i \in 1..Len(d) |-> d[i].k]

HasKey(d, k) == \E i \in 1..Len(d) : d[i].k = k

\* dict.get(k): None for a missing key
DictGet(d, k) ==
    IF HasKey(d, k) THEN d[CHOOSE i \in 1..Len(d) : d[i].k = k].v ELSE None

\* d[k] = v: an existing key keeps its place, a new key goes last
DictSet(d, k, v) ==
    IF HasKey(d, k)
    THEN [i \in 1..Len(d) |-> IF d[i].k = k THEN [k |-> k, v |-> v] ELSE d[i]]
    ELSE Append(d, [k |-> k, v |-> v])

\* d.pop(k, None): the dict without the key
DictPop(d, k) == SelectSeq(d, LAMBDA e : e.k # k)

\* retrieve_responses, line 111: filename.startswith(basename + '.') or
\* filename == basename (a base name holds no dot)
Matches(filename, basename) ==
    \/ Len(filename) >= 2 /\ filename[1] = basename
    \/ filename = <<basename>>

\* the fill without the break: every matching key is written
FillFirstMatch_NoBreak(d, basename, result) ==
    [i \in 1..Len(d) |->
        IF Matches(d[i].k, basename)
        THEN [k |-> d[i].k, v |-> Formatted(basename, result)]
        ELSE d[i]]

\* retrieve_responses, lines 109-115: the first matching key is written
FillFirstMatch(d, basename, result) ==
    LET hits == {i \in 1..Len(d) : Matches(d[i].k, basename)}
    IN IF hits = {} THEN d
       ELSE LET i == CHOOSE x \in hits : \A y \in hits : x <= y
            IN [d EXCEPT ![i].v = Formatted(basename, result)]

\* backend.py line 174: match_image = file_name.split('.')[0]
BaseName(filename) == filename[1]

Idle == [pc |-> "idle", file |-> NoFile, filename |-> <<>>, accepted |-> FALSE,
         status |-> 0, body |-> <<>>]

WebInit ==
    /\ sub = [s \in Subs |-> Idle]
    /\ pending_requests = <<>>
    /\ input_bucket = {}
    /\ request_queue = {}
    /\ response_queue = {}
    /\ deliveries = [s \in Subs |-> 0]
    /\ unprocessable = {}
    /\ unprocessable_receives = 0

\* Response(body, status): the request thread returns
Respond(s, status, body) ==
    sub' = [sub EXCEPT ![s].pc = "done", ![s].file = NoFile,
                       ![s].status = status, ![s].body = body]

\* a client posts a request
Arrive(s) ==
    /\ UNCHANGED notWeb
    /\ UNCHANGED <<unprocessable, unprocessable_receives>>
    /\ sub[s].pc = "idle"
    /\ \E f \in Files : sub' = [sub EXCEPT ![s].pc = "received", ![s].file = f]
    /\ UNCHANGED <<pending_requests, input_bucket, request_queue, response_queue,
                   deliveries>>

\* process_post_request, lines 168-194: validation and the upload to S3.
\* upload_fileobj succeeds within its three attempts ("ok"), raises ClientError
\* on all of them ("client_error") or raises another exception ("exception").
Receive(s) ==
    /\ UNCHANGED notWeb
    /\ UNCHANGED <<unprocessable, unprocessable_receives>>
    /\ sub[s].pc = "received"
    /\ LET file == sub[s].file
           v == validate_file(file)
       IN IF ~file.present
          THEN /\ Respond(s, 400, <<"No inputFile provided">>)
               /\ UNCHANGED input_bucket
          ELSE IF ~v[1]
          THEN /\ Respond(s, 400, <<"File validation error", v[2]>>)
               /\ UNCHANGED input_bucket
          ELSE \E up \in {"ok", "client_error", "exception"} :
                 IF up = "ok"
                 THEN /\ input_bucket' = input_bucket \cup {file.filename}
                      /\ sub' = [sub EXCEPT ![s].pc = "insert", ![s].file = NoFile,
                                            ![s].filename = file.filename]
                 ELSE /\ UNCHANGED input_bucket
                      /\ Respond(s, 500,
                            IF up = "client_error"
                            THEN <<"Failed to upload file to storage">>
                            ELSE <<"Internal server error">>)
    /\ UNCHANGED <<pending_requests, request_queue, response_queue, deliveries>>

\* process_post_request, lines 202-204: the Pending Entry is inserted
Insert(s) ==
    /\ UNCHANGED notWeb
    /\ UNCHANGED <<unprocessable, unprocessable_receives>>
    /\ sub[s].pc = "insert"
    /\ pending_requests' = DictSet(pending_requests, sub[s].filename, None)
    /\ sub' = [sub EXCEPT ![s].pc = "enqueue", ![s].accepted = TRUE]
    /\ UNCHANGED <<input_bucket, request_queue, response_queue, deliveries>>

\* process_post_request, lines 206-228 and 247-252: the job is sent. "sent":
\* send_message succeeds within its three attempts. "client_error": all three
\* raise ClientError, the entry and the upload are rolled back (delete_object
\* may fail, which is ignored). "exception": send_message raises another
\* exception, which only the handler at line 250 catches.
Enqueue(s) ==
    /\ UNCHANGED notWeb
    /\ UNCHANGED <<unprocessable, unprocessable_receives>>
    /\ sub[s].pc = "enqueue"
    /\ \E out \in {"sent", "client_error", "exception"}, deleted \in BOOLEAN :
         CASE out = "sent" ->
                /\ ~deleted
                /\ request_queue' = request_queue \cup
                     {[request_id |-> s, filename |-> sub[s].filename]}
                /\ sub' = [sub EXCEPT ![s].pc = "wait"]
                /\ UNCHANGED <<pending_requests, input_bucket>>
           [] out = "client_error" ->
                /\ pending_requests' = DictPop(pending_requests, sub[s].filename)
                /\ input_bucket' = IF deleted THEN input_bucket \ {sub[s].filename}
                                   ELSE input_bucket
                /\ Respond(s, 500, <<"Failed to queue request for processing">>)
                /\ UNCHANGED request_queue
           [] OTHER ->
                /\ ~deleted
                /\ Respond(s, 500, <<"Internal server error">>)
                /\ UNCHANGED <<pending_requests, input_bucket, request_queue>>
    /\ UNCHANGED <<response_queue, deliveries>>

\* process_post_request, lines 232-238: a poll that finds the slot filled
Poll(s) ==
    /\ UNCHANGED notWeb
    /\ UNCHANGED <<unprocessable, unprocessable_receives>>
    /\ sub[s].pc = "wait"
    /\ DictGet(pending_requests, sub[s].filename) # None
    /\ Respond(s, 200, DictGet(pending_requests, sub[s].filename))
    /\ pending_requests' = DictPop(pending_requests, sub[s].filename)
    /\ UNCHANGED <<input_bucket, request_queue, response_queue, deliveries>>

\* process_post_request, lines 232 and 240-245: REQUEST_TIMEOUT has elapsed
\* when the loop condition is evaluated
Timeout(s) ==
    /\ UNCHANGED notWeb
    /\ UNCHANGED <<unprocessable, unprocessable_receives>>
    /\ sub[s].pc = "wait"
    /\ pending_requests' = DictPop(pending_requests, sub[s].filename)
    /\ Respond(s, 504, <<"Request timed out">>)
    /\ UNCHANGED <<input_bucket, request_queue, response_queue, deliveries>>

\* backend.py as the web server sees it: a worker takes a job and publishes
\* its Result Message (lines 174 and 217-222)
WorkerReply ==
    /\ UNCHANGED notWeb
    /\ UNCHANGED <<unprocessable, unprocessable_receives>>
    /\ \E job \in request_queue, r \in Results :
         /\ request_queue' = request_queue \ {job}
         /\ response_queue' = response_queue \cup
              {[request_id |-> job.request_id, filename |-> BaseName(job.filename),
                result |-> r]}
    /\ UNCHANGED <<sub, pending_requests, input_bucket, deliveries>>

\* RetrieveResponse with the delete_message call made only when an entry matched
RetrieveResponse_DeleteMatchedOnly ==
    /\ UNCHANGED notWeb
    /\ UNCHANGED <<unprocessable, unprocessable_receives>>
    /\ \E m \in response_queue, delete_ok \in BOOLEAN :
         /\ deliveries[m.request_id] < MaxDeliveries
         /\ deliveries' = [deliveries EXCEPT ![m.request_id] = @ + 1]
         /\ pending_requests' = FillFirstMatch(pending_requests, m.filename, m.result)
         /\ response_queue' = IF delete_ok /\ pending_requests' # pending_requests
                               THEN response_queue \ {m} ELSE response_queue
    /\ UNCHANGED <<sub, input_bucket, request_queue>>

\* retrieve_responses, lines 98-126: one received message is handled. The
\* delete_message that ends it succeeds, or raises ClientError and leaves the
\* message to be delivered again.
RetrieveResponse ==
    /\ UNCHANGED notWeb
    /\ UNCHANGED <<unprocessable, unprocessable_receives>>
    /\ \E m \in response_queue, delete_ok \in BOOLEAN :
         /\ deliveries[m.request_id] < MaxDeliveries
         /\ deliveries' = [deliveries EXCEPT ![m.request_id] = @ + 1]
         /\ pending_requests' = FillFirstMatch(pending_requests, m.filename, m.result)
         /\ response_queue' = IF delete_ok THEN response_queue \ {m} ELSE response_queue
    /\ UNCHANGED <<sub, input_bucket, request_queue>>

\* the bodies retrieve_responses cannot process: json.loads raises, or
\* message_body.get('filename') is empty, or message_body.get('result') is None
UnprocessableBodies == {"not_json", "no_filename", "no_result"}

\* what retrieve_responses does with such a body: JSONDecodeError is caught and
\* logged (lines 123-124), the other two reach the continue (lines 105-107).
\* Neither path gets to the delete_message call of lines 118-121.
DeletesUnprocessable(b) ==
    CASE b = "not_json" -> FALSE
      [] b \in {"no_filename", "no_result"} -> FALSE

\* a producer puts a message on the response queue that is no Result Message
SendUnprocessable ==
    /\ UNCHANGED notWeb
    /\ Cardinality(unprocessable) < MaxUnprocessable
    /\ \E b \in UnprocessableBodies \ unprocessable :
         unprocessable' = unprocessable \cup {b}
    /\ UNCHANGED <<sub, pending_requests, input_bucket, request_queue,
                   response_queue, deliveries, unprocessable_receives>>

\* retrieve_responses, lines 98-107 and 123-128: one received message that is
\* no Result Message
RetrieveUnprocessable ==
    /\ UNCHANGED notWeb
    /\ unprocessable_receives < MaxUnprocessableReceives
    /\ \E b \in unprocessable :
         /\ unprocessable_receives' = unprocessable_receives + 1
         /\ unprocessable' = IF DeletesUnprocessable(b)
                             THEN unprocessable \ {b} ELSE unprocessable
    /\ UNCHANGED <<sub, pending_requests, input_bucket, request_queue,
                   response_queue, deliveries>>

WebNext ==
    \/ \E s \in Subs : Arrive(s)
    \/ \E s \in Subs : Receive(s)
    \/ \E s \in Subs : Insert(s)
    \/ \E s \in Subs : Enqueue(s)
    \/ \E s \in Subs : Poll(s)
    \/ \E s \in Subs : Timeout(s)
    \/ WorkerReply
    \/ RetrieveResponse
    \/ SendUnprocessable
    \/ RetrieveUnprocessable

----------------------------------------------------------------------------
(* app-tier/backend.py: the worker *)

Workers == 1..NumWorkers

Jobs == 1..NumJobs

\* the message bodies a producer may put on the request queue: the web
\* server's job, a job without a filename, and a body that is not JSON
NotJson == [json |-> FALSE]

JobBodies(j) ==
    { [json |-> TRUE, request_id |-> j, filename |-> <<"a", "jpg">>],
      [json |-> TRUE, request_id |-> j, filename |-> <<>>],
      NotJson }

NoJob == 0

\* Python's None, where the value is otherwise a string
Unset == "None"

\* a worker process before main() runs, or after it ended
Stopped == [pc |-> "exited", DLQ_QUEUE_URL |-> Unset, job |-> NoJob,
            match_result |-> Unset, consecutive_failures |-> 0]

WorkerInit ==
    /\ worker = [w \in Workers |-> Stopped]
    /\ job_body = [j \in Jobs |-> NotJson]   \* no body before SendJob
    /\ visibility = [j \in Jobs |-> "absent"]
    /\ receives = [j \in Jobs |-> 0]
    /\ dlq = <<>>
    /\ output_bucket = {}
    /\ published = <<>>

\* message.get('failure_count', 0)
FailureCount(message) ==
    IF "failure_count" \in DOMAIN message THEN message.failure_count ELSE 0

\* send_to_dlq(message, error_reason): the DLQ afterwards and what was returned;
\* answer is what sqs.send_message does when it is called
send_to_dlq(url, queue, message, error_reason, answer) ==
    IF url = Unset
    THEN [dlq |-> queue, sent |-> "unconfigured"]
    ELSE IF answer = "ok"
    THEN [dlq |-> Append(queue, [original_message |-> message,
                                 error_reason |-> error_reason,
                                 failure_count |-> FailureCount(message) + 1]),
          sent |-> "sent"]
    ELSE [dlq |-> queue, sent |-> "failed"]

DlqAnswers == {"ok", "ClientError"}

\* download_file_with_retry: answers[a] is what s3.download_file does on
\* attempt a; the result is whether it returned True and the attempts made
RECURSIVE DownloadFrom(_, _)
DownloadFrom(answers, attempt) ==
    IF attempt > MAX_RETRIES THEN [ok |-> FALSE, attempts |-> MAX_RETRIES]
    ELSE CASE answers[attempt] = "ok" -> [ok |-> TRUE, attempts |-> attempt]
           [] answers[attempt] \in {"NoSuchKey", "NoSuchBucket", "Exception"} ->
                [ok |-> FALSE, attempts |-> attempt]
           [] OTHER ->
                IF attempt = MAX_RETRIES
                THEN [ok |-> FALSE, attempts |-> attempt]
                ELSE DownloadFrom(answers, attempt + 1)

download_file_with_retry(answers) == DownloadFrom(answers, 1)

DownloadAnswers == {"ok", "NoSuchKey", "NoSuchBucket", "ClientError", "Exception"}

\* what download_file_with_retry can return, over every sequence of answers
DownloadResults ==
    {download_file_with_retry(answers) : answers \in [1..MAX_RETRIES -> DownloadAnswers]}

\* upload_result_with_retry and send_response_with_retry share one loop:
\* a ClientError is retried up to MAX_RETRIES attempts, any other exception
\* ends the loop at once
RECURSIVE RetryFrom(_, _)
RetryFrom(answers, attempt) ==
    IF attempt > MAX_RETRIES THEN [ok |-> FALSE, attempts |-> MAX_RETRIES]
    ELSE CASE answers[attempt] = "ok" -> [ok |-> TRUE, attempts |-> attempt]
           [] answers[attempt] = "Exception" -> [ok |-> FALSE, attempts |-> attempt]
           [] OTHER ->
                IF attempt = MAX_RETRIES
                THEN [ok |-> FALSE, attempts |-> attempt]
                ELSE RetryFrom(answers, attempt + 1)

upload_result_with_retry(answers) == RetryFrom(answers, 1)

send_response_with_retry(answers) == RetryFrom(answers, 1)

RetryAnswers == {"ok", "ClientError", "Exception"}

\* what the two can return, over every sequence of answers
UploadResults ==
    {upload_result_with_retry(answers) : answers \in [1..MAX_RETRIES -> RetryAnswers]}

SendResults ==
    {send_response_with_retry(answers) : answers \in [1..MAX_RETRIES -> RetryAnswers]}

\* main(), after handle_request returned processed: the failure counter, the
\* exit after max_consecutive_failures, and where the loop goes next
AfterRequest(wk, processed) ==
    LET cf == IF processed THEN 0 ELSE wk.consecutive_failures + 1
    IN  IF cf >= max_consecutive_failures
        THEN Stopped
        ELSE [wk EXCEPT !.consecutive_failures = cf,
                        !.job = NoJob, !.match_result = Unset,
                        !.pc = IF processed THEN "more" ELSE "poll"]

\* a failing stage of handle_request: send_to_dlq, then return False
FailToDlq(w, message, error_reason, answer) ==
    LET r == send_to_dlq(worker[w].DLQ_QUEUE_URL, dlq, message, error_reason, answer)
    IN  /\ dlq' = r.dlq
        /\ worker' = [worker EXCEPT ![w] = AfterRequest(@, FALSE)]

\* the instance boots and runs main(); DLQ_QUEUE_URL is looked up at import
Start(w) ==
    /\ UNCHANGED notWorker
    /\ worker[w].pc = "exited"
    /\ \E url \in {"dlq-url", Unset} :
         worker' = [worker EXCEPT ![w] = [Stopped EXCEPT !.pc = "poll",
                                                         !.DLQ_QUEUE_URL = url]]
    /\ UNCHANGED <<job_body, visibility, receives, dlq, output_bucket, published>>

\* a producer puts job j on the request queue
SendJob(j) ==
    /\ UNCHANGED notWorker
    /\ visibility[j] = "absent"
    /\ \E b \in JobBodies(j) : job_body' = [job_body EXCEPT ![j] = b]
    /\ visibility' = [visibility EXCEPT ![j] = "visible"]
    /\ UNCHANGED <<worker, receives, dlq, output_bucket, published>>

\* main(): sqs.receive_message with VisibilityTimeout=VISIBILITY_TIMEOUT
ReceiveMessage(w) ==
    /\ UNCHANGED notWorker
    /\ worker[w].pc = "poll"
    /\ \/ \E j \in Jobs :
            /\ visibility[j] = "visible"
            /\ visibility' = [visibility EXCEPT ![j] = "in_flight"]
            /\ receives' = [receives EXCEPT ![j] = @ + 1]
            /\ worker' = [worker EXCEPT ![w] =
                   [@ EXCEPT !.pc = "parse", !.job = j]]
       \/ /\ \A j \in Jobs : visibility[j] # "visible"
          /\ worker' = [worker EXCEPT ![w] = Stopped]
          /\ UNCHANGED <<visibility, receives>>
       \/ /\ worker' = [worker EXCEPT ![w] =
                 IF @.consecutive_failures + 1 >= max_consecutive_failures
                 THEN Stopped
                 ELSE [@ EXCEPT !.consecutive_failures = @ + 1]]
          /\ UNCHANGED <<visibility, receives>>
    /\ UNCHANGED <<job_body, dlq, output_bucket, published>>

\* handle_request: json.loads and the filename check
Parse(w) ==
    LET wk == worker[w]
        body == job_body[wk.job]
    IN  /\ UNCHANGED notWorker
        /\ wk.pc = "parse"
        /\ \/ /\ ~body.json
              /\ worker' = [worker EXCEPT ![w] = AfterRequest(@, FALSE)]
              /\ dlq' = dlq
           \/ /\ body.json
              /\ body.filename = <<>>
              /\ \E answer \in DlqAnswers :
                   FailToDlq(w, body, "Missing filename in request", answer)
           \/ /\ body.json
              /\ body.filename # <<>>
              /\ worker' = [worker EXCEPT ![w] =
                     [@ EXCEPT !.pc = "download"]]
              /\ dlq' = dlq
        /\ UNCHANGED <<job_body, visibility, receives, output_bucket, published>>

\* handle_request: download_file_with_retry
Download(w) ==
    LET wk == worker[w]
        body == job_body[wk.job]
    IN  /\ UNCHANGED notWorker
        /\ wk.pc = "download"
        /\ \E downloaded \in DownloadResults :
             IF downloaded.ok
             THEN /\ worker' = [worker EXCEPT ![w] =
                         [@ EXCEPT !.pc = "validate"]]
                  /\ dlq' = dlq
             ELSE \E answer \in DlqAnswers :
                      FailToDlq(w, body, "Failed to download file", answer)
        /\ UNCHANGED <<job_body, visibility, receives, output_bucket, published>>

\* handle_request: the downloaded file exists and is not empty
Validate(w) ==
    LET wk == worker[w]
        body == job_body[wk.job]
    IN  /\ UNCHANGED notWorker
        /\ wk.pc = "validate"
        /\ \E size \in {0, 2048} :
             IF size = 0
             THEN \E answer \in DlqAnswers :
                      FailToDlq(w, body, "Downloaded file is empty or corrupted", answer)
             ELSE /\ worker' = [worker EXCEPT ![w] =
                         [@ EXCEPT !.pc = "infer"]]
                  /\ dlq' = dlq
        /\ UNCHANGED <<job_body, visibility, receives, output_bucket, published>>

InferOutcomes == {"FileNotFoundError", "IndexError", "Exception", "Alice"}

\* Infer with the IndexError of face_match treated as a failure of the run
Infer_NoFaceFails(w) ==
    LET wk == worker[w]
        body == job_body[wk.job]
    IN  /\ UNCHANGED notWorker
        /\ wk.pc = "infer"
        /\ \E out \in InferOutcomes :
             CASE out = "FileNotFoundError" ->
                    \E answer \in DlqAnswers :
                        FailToDlq(w, body, "Face recognition data file 'data.pt' not found", answer)
               [] out = "Exception" ->
                    \E answer \in DlqAnswers :
                        FailToDlq(w, body, "Face recognition failed", answer)
               [] out = "IndexError" ->
                    \E answer \in DlqAnswers :
                        FailToDlq(w, body, "No face detection result returned", answer)
               [] OTHER ->
                    /\ worker' = [worker EXCEPT ![w] =
                           [@ EXCEPT !.pc = "upload", !.match_result = out]]
                    /\ dlq' = dlq
        /\ UNCHANGED <<job_body, visibility, receives, output_bucket, published>>

\* handle_request: face_match(tmp_path, 'data.pt')[0]
Infer(w) ==
    LET wk == worker[w]
        body == job_body[wk.job]
    IN  /\ UNCHANGED notWorker
        /\ wk.pc = "infer"
        /\ \E out \in InferOutcomes :
             CASE out = "FileNotFoundError" ->
                    \E answer \in DlqAnswers :
                        FailToDlq(w, body, "Face recognition data file 'data.pt' not found", answer)
               [] out = "Exception" ->
                    \E answer \in DlqAnswers :
                        FailToDlq(w, body, "Face recognition failed", answer)
               [] OTHER ->
                    /\ worker' = [worker EXCEPT ![w] =
                           [@ EXCEPT !.pc = "upload",
                                     !.match_result = IF out = "IndexError"
                                                      THEN "No face detected"
                                                      ELSE out]]
                    /\ dlq' = dlq
        /\ UNCHANGED <<job_body, visibility, receives, output_bucket, published>>

\* s3.put_object(Bucket, Key, Body): the key's earlier body is replaced
PutObject(bucket, key, content) ==
    {o \in bucket : o.key # key} \cup {[key |-> key, body |-> content]}

\* handle_request: upload_result_with_retry(OUTPUT_BUCKET, match_image, match_result)
Upload(w) ==
    LET wk == worker[w]
        body == job_body[wk.job]
        match_image == BaseName(body.filename)
    IN  /\ UNCHANGED notWorker
        /\ wk.pc = "upload"
        /\ \E uploaded \in UploadResults :
             IF uploaded.ok
             THEN /\ output_bucket' = PutObject(output_bucket, match_image, wk.match_result)
                  /\ worker' = [worker EXCEPT ![w] =
                         [@ EXCEPT !.pc = "respond"]]
                  /\ dlq' = dlq
             ELSE /\ \E answer \in DlqAnswers :
                        FailToDlq(w, body, "Failed to upload result", answer)
                  /\ output_bucket' = output_bucket
        /\ UNCHANGED <<job_body, visibility, receives, published>>

\* SendResponse with the delete of the source job issued before the send
SendResponse_DeleteFirst(w) ==
    LET wk == worker[w]
        body == job_body[wk.job]
        response_queue_message == [filename |-> BaseName(body.filename),
                                   result |-> wk.match_result,
                                   request_id |-> body.request_id]
    IN  /\ UNCHANGED notWorker
        /\ wk.pc = "respond"
        /\ visibility' = [visibility EXCEPT ![wk.job] = "deleted"]
        /\ \E sent \in SendResults :
             IF sent.ok
             THEN /\ published' = Append(published, response_queue_message)
                  /\ worker' = [worker EXCEPT ![w] =
                         [@ EXCEPT !.pc = "delete"]]
             ELSE /\ published' = published
                  /\ worker' = [worker EXCEPT ![w] = AfterRequest(@, FALSE)]
        /\ UNCHANGED <<job_body, receives, dlq, output_bucket>>

\* handle_request: send_response_with_retry; a failure returns False and
\* sends nothing to the DLQ
SendResponse(w) ==
    LET wk == worker[w]
        body == job_body[wk.job]
        response_queue_message == [filename |-> BaseName(body.filename),
                                   result |-> wk.match_result,
                                   request_id |-> body.request_id]
    IN  /\ UNCHANGED notWorker
        /\ wk.pc = "respond"
        /\ \E sent \in SendResults :
             IF sent.ok
             THEN /\ published' = Append(published, response_queue_message)
                  /\ worker' = [worker EXCEPT ![w] =
                         [@ EXCEPT !.pc = "delete"]]
             ELSE /\ published' = published
                  /\ worker' = [worker EXCEPT ![w] = AfterRequest(@, FALSE)]
        /\ UNCHANGED <<job_body, visibility, receives, dlq, output_bucket>>

\* handle_request: sqs.delete_message. A ClientError is logged and the run
\* still returns True; any other exception reaches the outer handler, which
\* dead-letters {request_id, filename} and returns False
DeleteMessage(w) ==
    LET wk == worker[w]
        body == job_body[wk.job]
    IN  /\ UNCHANGED notWorker
        /\ wk.pc = "delete"
        /\ \/ /\ visibility' = [visibility EXCEPT ![wk.job] = "deleted"]
              /\ worker' = [worker EXCEPT ![w] = AfterRequest(@, TRUE)]
              /\ dlq' = dlq
           \/ /\ worker' = [worker EXCEPT ![w] = AfterRequest(@, TRUE)]
              /\ UNCHANGED <<visibility, dlq>>
           \/ /\ \E answer \in DlqAnswers :
                   LET r == send_to_dlq(wk.DLQ_QUEUE_URL, dlq,
                                [request_id |-> body.request_id,
                                 filename |-> body.filename],
                                "Unexpected error processing request", answer)
                   IN  /\ dlq' = r.dlq
                       /\ worker' = [worker EXCEPT ![w] = AfterRequest(@, FALSE)]
              /\ UNCHANGED visibility
        /\ UNCHANGED <<job_body, receives, output_bucket, published>>

\* main(): check_for_more_requests (VisibilityTimeout=0: nothing is leased);
\* an error of the call counts as no more requests
CheckForMoreRequests(w) ==
    /\ UNCHANGED notWorker
    /\ worker[w].pc = "more"
    /\ \E more \in {TRUE, FALSE} :
         /\ more => \E j \in Jobs : visibility[j] = "visible"
         /\ worker' = [worker EXCEPT ![w] =
                IF more THEN [@ EXCEPT !.pc = "poll"] ELSE Stopped]
    /\ UNCHANGED <<job_body, visibility, receives, dlq, output_bucket, published>>

Processing == {"parse", "download", "validate", "infer", "upload", "respond", "delete"}

\* the instance is stopped while the worker is processing (the controller's
\* stop_instances is forced): the run ends where it is
Crash(w) ==
    /\ UNCHANGED notWorker
    /\ worker[w].pc \in Processing
    /\ worker' = [worker EXCEPT ![w] = [Stopped EXCEPT !.pc = "exited"]]
    /\ UNCHANGED <<job_body, visibility, receives, dlq, output_bucket, published>>

\* the visibility timeout of a received message passes: it is delivered again
VisibilityExpires(j) ==
    /\ UNCHANGED notWorker
    /\ visibility[j] = "in_flight"
    /\ receives[j] < MaxReceives
    /\ visibility' = [visibility EXCEPT ![j] = "visible"]
    /\ UNCHANGED <<worker, job_body, receives, dlq, output_bucket, published>>

WorkerNext ==
    \/ \E w \in Workers : Start(w)
    \/ \E j \in Jobs : SendJob(j)
    \/ \E w \in Workers : ReceiveMessage(w)
    \/ \E w \in Workers : Parse(w)
    \/ \E w \in Workers : Download(w)
    \/ \E w \in Workers : Validate(w)
    \/ \E w \in Workers : Infer(w)
    \/ \E w \in Workers : Upload(w)
    \/ \E w \in Workers : SendResponse(w)
    \/ \E w \in Workers : DeleteMessage(w)
    \/ \E w \in Workers : CheckForMoreRequests(w)
    \/ \E w \in Workers : Crash(w)
    \/ \E j \in Jobs : VisibilityExpires(j)

----------------------------------------------------------------------------

Init == CtlInit /\ WebInit /\ WorkerInit

SpecCtl == Init /\ [][CtlNext]_vars

\* the steps of the controller's own thread: start_monitoring runs on as long
\* as it has not raised
CtlTick ==
    CheckBreaker \/ SkipTick \/ Sample \/ Launch \/ Resample \/ Shutdown \/ EndTick

SpecCtlFair == SpecCtl /\ WF_vars(CtlTick)

SpecWeb == Init /\ [][WebNext]_vars

SpecWorker == Init /\ [][WorkerNext]_vars

\* the steps of worker w's own process: main() and handle_request run on until
\* the process exits
WorkerStep(w) ==
    \/ ReceiveMessage(w) \/ Parse(w) \/ Download(w) \/ Validate(w) \/ Infer(w)
    \/ Upload(w) \/ SendResponse(w) \/ DeleteMessage(w) \/ CheckForMoreRequests(w)

\* the worker tier when no instance is stopped in the middle of a run
WorkerFairNext ==
    \/ \E w \in Workers : Start(w)
    \/ \E j \in Jobs : SendJob(j)
    \/ \E w \in Workers : WorkerStep(w)
    \/ \E j \in Jobs : VisibilityExpires(j)

\* workers keep running, stopped instances are started again, and the
\* visibility timeout of a received message passes
SpecWorkerFair ==
    /\ Init /\ [][WorkerFairNext]_vars
    /\ \A w \in Workers : WF_vars(WorkerStep(w)) /\ WF_vars(Start(w))
    /\ \A j \in Jobs : WF_vars(VisibilityExpires(j))

----------------------------------------------------------------------------
(* Claims about the controller, checked under SpecCtl *)

Distinct(s) == \A j, k \in 1..Len(s) : j # k => s[j] # s[k]

StartIds == [k \in 1..Len(start_cmds) |-> start_cmds[k].id]

\* a tick that has reached its scaling logic
InScaling == cpc \in {"launch", "resample", "shutdown", "sleep"}

\* C3: the instances pending or running never number more than max_instances,
\* and no start command is addressed to an instance that is pending or running.
C3_FleetWithinMax ==
    /\ Cardinality(InState({"pending", "running"})) <= max_instances
    /\ \A k \in 1..Len(start_cmds) : start_cmds[k].was \notin {"pending", "running"}

\* C4: a breaker check reports open exactly when the failure counter has
\* reached the threshold and less than the timeout has elapsed since the last
\* failure; a check made once the timeout has elapsed resets the counter to
\* zero and the tick goes on to scale; while the breaker is open the counter
\* does not move.
C4_BreakerExact ==
    [][/\ (cpc = "check" /\ cpc' # "check") =>
            /\ (cpc' = "skip") <=>
                 (circuit_breaker_failures >= circuit_breaker_threshold
                  /\ since_last_failure < circuit_breaker_timeout)
            /\ (circuit_breaker_failures >= circuit_breaker_threshold
                /\ since_last_failure >= circuit_breaker_timeout)
                 => (circuit_breaker_failures' = 0 /\ cpc' = "sample")
            /\ circuit_breaker_failures < circuit_breaker_threshold
                 => (circuit_breaker_failures' = circuit_breaker_failures
                     /\ cpc' = "sample")
       /\ (cpc = "skip" \/ cpc' = "skip") =>
            circuit_breaker_failures' = circuit_breaker_failures]_vars

\* C4's case: a check found the counter at the threshold with the timeout
\* elapsed, reset it and let the tick sample
C4_Witness ==
    /\ breaker = "reset"
    /\ cpc = "sample"
    /\ circuit_breaker_failures = 0
    /\ since_last_failure = circuit_breaker_timeout

\* C9: with d the sampled request depth and r the sampled running count, a tick
\* with d > 0 and r < min(d, max_instances) issues exactly
\* min(d - r, max_instances - r, |idle|) start commands, to distinct instances
\* sampled as stopped; any other tick issues none.
C9_StartCount ==
    LET d == req_count
        r == Len(active_instances)
        m1 == IF d - r < max_instances - r THEN d - r ELSE max_instances - r
        want == IF m1 < Len(idle_instances) THEN m1 ELSE Len(idle_instances)
        up == d > 0 /\ r < (IF d < max_instances THEN d ELSE max_instances)
    IN /\ ~InScaling => start_cmds = <<>>
       /\ InScaling /\ ~up => start_cmds = <<>>
       /\ InScaling /\ up =>
            /\ Len(start_cmds) <= want
            /\ cpc # "launch" => Len(start_cmds) = want
            /\ Distinct(StartIds)
            /\ Range(StartIds) \subseteq Range(idle_instances)

\* C9's case: a finished tick in which the caps differ and the cap by
\* max_instances decided the number of starts
C9_Witness ==
    /\ cpc = "sleep"
    /\ req_count = 3
    /\ Len(active_instances) = 1
    /\ Len(idle_instances) = 2
    /\ Len(start_cmds) = 1

\* C10: stop commands are issued only in a tick whose first sample and whose
\* re-sample both gave a total depth of 0 with at least one running instance;
\* such a tick sends a stop to every sampled running instance; a tick whose
\* re-sample is not 0 sends none.
C10_StopOnlyWhenConfirmed ==
    LET re == IF resample = NoSample THEN 0 - 1 ELSE resample[1] + resample[2]
    IN /\ stop_cmds # <<>> =>
            /\ total_pending = 0
            /\ re = 0
            /\ Len(active_instances) > 0
       /\ (cpc = "sleep" /\ total_pending = 0 /\ Len(active_instances) > 0 /\ re = 0)
            => stop_cmds = active_instances
       /\ re > 0 => stop_cmds = <<>>
       /\ ~InScaling => stop_cmds = <<>>

\* C10's case: a finished tick that stopped both of its running instances
C10_Witness ==
    /\ cpc = "sleep"
    /\ Len(active_instances) = 2
    /\ stop_cmds = active_instances
    /\ resample = <<0, 0>>

----------------------------------------------------------------------------
(* Claims about the web server, checked under SpecWeb *)

\* retrieve_responses handles message m in this step
Handles(m) == deliveries'[m.request_id] = deliveries[m.request_id] + 1

\* C2: once an accepted submission has returned, the pending table holds no
\* entry for its logical_name, unless another submission of that name has
\* inserted one and is still on its way.
C2_EntryRemoved ==
    \A s \in Subs :
        (sub[s].pc = "done" /\ sub[s].accepted /\ HasKey(pending_requests, sub[s].filename))
        => \E t \in Subs \ {s} :
              /\ sub[t].filename = sub[s].filename
              /\ sub[t].pc \in {"enqueue", "wait"}

\* C5: a second delivery of a Result Message leaves every filled Pending
\* Entry with the value it had.
C5_SecondDeliveryKeepsFilled ==
    [][\A m \in response_queue :
         (Handles(m) /\ deliveries[m.request_id] >= 1)
         => /\ Len(pending_requests') = Len(pending_requests)
            /\ \A i \in 1..Len(pending_requests) :
                 pending_requests[i].v # None
                 => pending_requests'[i] = pending_requests[i]]_vars

\* C6: when the Correlator handles a Result Message whose filename is the base
\* name of a waiting submission's logical_name, that submission's Pending
\* Entry holds "<base>:<result>" afterwards (which its next poll returns with
\* status 200), whatever other submissions are under way.
C6_MatchingResultFillsWaiter ==
    [][\A m \in response_queue : \A s \in Subs :
         (Handles(m) /\ sub[s].pc = "wait" /\ BaseName(sub[s].filename) = m.filename)
         => DictGet(pending_requests', sub[s].filename)
              = Formatted(m.filename, m.result)]_vars

\* the payloads C7 calls invalid: no file, an extension outside the allowed
\* set, an empty file, a file larger than MAX_FILE_SIZE
C7_Invalid(file) ==
    \/ ~file.present
    \/ file.filename = <<>>
    \/ Len(file.filename) < 2
    \/ Lower(file.filename[Len(file.filename)]) \notin ALLOWED_EXTENSIONS
    \/ file.size = 0
    \/ file.size > MAX_FILE_SIZE

\* C7: a request whose payload is invalid is answered 400 by the step that
\* handles it, and that step changes neither the bucket nor the request queue
\* nor the pending table.
C7_RejectNoEffect ==
    [][\A s \in Subs :
         (sub[s].pc = "received" /\ sub'[s] # sub[s] /\ C7_Invalid(sub[s].file))
         => /\ sub'[s].pc = "done"
            /\ sub'[s].status = 400
            /\ input_bucket' = input_bucket
            /\ request_queue' = request_queue
            /\ pending_requests' = pending_requests]_vars

\* C7's case: an oversized file was rejected while another submission's
\* upload, job and entry are in place
C7_Witness ==
    \E s \in Subs :
        /\ sub[s].pc = "done"
        /\ sub[s].status = 400
        /\ sub[s].body = <<"File validation error", "File too large">>
        /\ input_bucket # {}
        /\ request_queue # {}
        /\ pending_requests # <<>>

\* C8: a submission that times out returns 504 and leaves no entry; when the
\* Correlator later handles the Result Message of a submission that timed out,
\* the pending table is left as it was: no entry is created and no slot is
\* filled for any caller.
C8_LateResultDiscarded ==
    [][/\ \A s \in Subs :
            (sub[s].pc = "wait" /\ sub'[s].pc = "done" /\ sub'[s].status # 200)
            => /\ sub'[s].status = 504
               /\ ~HasKey(pending_requests', sub[s].filename)
       /\ \A m \in response_queue :
            (Handles(m) /\ sub[m.request_id].pc = "done"
                        /\ sub[m.request_id].status = 504)
            => pending_requests' = pending_requests]_vars

----------------------------------------------------------------------------
(* Claims about the worker (backend.py) *)

\* job j has a record on the DLQ
DeadLettered(j) ==
    \E i \in 1..Len(dlq) : dlq[i].original_message.request_id = j

\* job j was deleted from the request queue
Deleted(j) == visibility[j] = "deleted"

\* a Result Message for job j was published
Published(j) ==
    \E i \in 1..Len(published) : published[i].request_id = j

(* C1: a job is deleted from the Request Queue iff every stage through
   publishing the Result Message succeeded, and a job is never both
   dead-lettered and deleted: a deleted job has a published Result Message,
   and no job has a DLQ record and is deleted. *)
C1_DeletedIffSucceeded ==
    /\ \A j \in Jobs : Deleted(j) => Published(j)
    /\ \A j \in Jobs : ~(DeadLettered(j) /\ Deleted(j))

\* C11: when enqueueing the Job of a submission fails (the request ends in
\* the enqueue step with no Job sent), the answer is 500, the submission's
\* Pending Entry is gone, nothing but its stored payload left the input
\* bucket, and no Job of that submission is on the request queue.
C11_EnqueueFailureRolledBack ==
    [][\A s \in Subs :
          (sub[s].pc = "enqueue" /\ sub'[s].pc = "done")
          => /\ sub'[s].status = 500
             /\ ~HasKey(pending_requests', sub[s].filename)
             /\ input_bucket' \in {input_bucket, input_bucket \ {sub[s].filename}}
             /\ \A job \in request_queue' : job.request_id # s]_vars

\* C12 as stated: every Result Message the Correlator handles is gone from
\* the response queue after the step that handled it.
C12_EveryHandledMessageDeleted ==
    [][\A m \in response_queue : Handles(m) => m \notin response_queue']_vars

\* C12, amended: every handling of a Result Message ends with the delete
\* call, matched or not. While a message can be received, handling it with
\* the delete accepted is possible whatever the pending table holds, and a
\* handling step either removes exactly that message or (the delete call
\* failed) leaves the queue as it was.
C12_DeleteIssuedMatchedOrNot ==
    /\ [](\A m \in response_queue :
            deliveries[m.request_id] < MaxDeliveries
            => ENABLED (RetrieveResponse /\ Handles(m) /\ m \notin response_queue'))
    /\ [][\A m \in response_queue :
            Handles(m) => response_queue' \in {response_queue \ {m}, response_queue}]_vars

\* an unmatched message was handled and deleted: the only submission so far
\* timed out, its Result Message was delivered once and is gone, and the
\* pending table is empty
C12_Witness ==
    \E s \in Subs :
        /\ sub[s].pc = "done" /\ sub[s].status = 504
        /\ \A t \in Subs \ {s} : sub[t].pc = "idle"
        /\ deliveries[s] = 1
        /\ response_queue = {}
        /\ request_queue = {}
        /\ pending_requests = <<>>

\* the result of job j is in the output bucket
Stored(j) ==
    \E o \in output_bucket : o.key = BaseName(job_body[j].filename)

\* worker w takes a step
Steps(w) == worker'[w] # worker[w]

(* C13: the delete of the source job is the last step of handle_request.
   A job leaves the request queue only in a step of a worker that is at the
   delete with that job, after the result was stored and the Result Message
   published; a step of a worker at any earlier stage, and a crash at any
   stage, leaves every job's place on the queue as it was; and a job that is
   in flight can become visible again (its visibility timeout expires). *)
C13_DeleteIsLast ==
    /\ [][\A j \in Jobs :
            (visibility[j] # "deleted" /\ visibility'[j] = "deleted")
            => /\ \E w \in Workers :
                    Steps(w) /\ worker[w].pc = "delete" /\ worker[w].job = j
               /\ Stored(j)
               /\ Published(j)]_vars
    /\ [][\A w \in Workers :
            (/\ Steps(w)
             /\ worker[w].pc \in Processing
             /\ worker[w].pc # "delete" \/ worker'[w].pc = "exited")
            => visibility' = visibility]_vars
    /\ [](\A j \in Jobs :
            (visibility[j] = "in_flight" /\ receives[j] < MaxReceives)
            => ENABLED (VisibilityExpires(j) /\ visibility'[j] = "visible"))

\* a run ended after the result was stored and before anything was published
\* or dead-lettered, the workers are gone, and the job is visible again
C13_Witness ==
    \E j \in Jobs :
        /\ visibility[j] = "visible"
        /\ receives[j] = 1
        /\ Stored(j)
        /\ published = <<>>
        /\ dlq = <<>>
        /\ \A w \in Workers : worker[w].pc = "exited"

\* the Dead-Letter Records of job j
DlqRecords(j) ==
    {i \in 1..Len(dlq) : dlq[i].original_message.request_id = j}

\* worker w receives a message in this step and starts to process it
Receives(w) == worker[w].pc = "poll" /\ worker'[w].pc = "parse"

\* C14: dead-lettered is absorbing: no worker receives a job that has a
\* Dead-Letter Record, and no job has more than one Dead-Letter Record.
C14_DeadLetteredAbsorbing ==
    /\ [][\A w \in Workers : Receives(w) => ~DeadLettered(worker'[w].job)]_vars
    /\ [](\A j \in Jobs : Cardinality(DlqRecords(j)) <= 1)

\* worker w's run of handle_request returns False in this step (and main()
\* goes back to polling)
ReturnsFalse(w) ==
    Steps(w) /\ worker[w].pc \in Processing /\ worker'[w].pc = "poll"

\* C15: every run of handle_request that ends in failure appends a
\* Dead-Letter Record holding the job, an error reason and a failure counter.
C15_FailedRunLeavesRecord ==
    [][\A w \in Workers :
          ReturnsFalse(w)
          => /\ Len(dlq') = Len(dlq) + 1
             /\ LET rec == dlq'[Len(dlq')]
                IN  /\ rec.original_message = job_body[worker[w].job]
                    /\ rec.error_reason # ""
                    /\ rec.failure_count >= 1]_vars

----------------------------------------------------------------------------
(* Claims about the controller, continued *)

(* C16: every failed control-surface call increments circuit_breaker_failures
   and stamps last_circuit_breaker_failure, every successful one resets the
   counter to zero.  Stated on the calls whose outcome shows in the state:
   after the samples of a tick whose last call, the listing of stopped
   instances, returned instances, the counter is 0; after a re-sample the
   counter is 0 when both reads succeeded and positive and freshly stamped
   when one failed; after a start command that moved its instance to
   pending, the counter is 0. *)
C16_EveryCallCounted ==
    [][/\ (cpc = "sample" /\ cpc' \in {"launch", "resample", "sleep"}
             /\ idle_instances' # <<>>)
          => circuit_breaker_failures' = 0
       /\ (cpc = "resample" /\ cpc' # "resample" /\ ~read_failed)
          => IF read_failed'
             THEN circuit_breaker_failures' >= 1 /\ since_last_failure' = 0
             ELSE circuit_breaker_failures' = 0
       /\ (cpc = "launch" /\ instance_state' # instance_state)
          => circuit_breaker_failures' = 0]_vars

(* C17: a tick that begins with the breaker open is skipped: the check goes
   to the skip exactly when the breaker is open, the skipped tick changes
   nothing but the clock (no read, no listing, no command, no failure
   recorded), and every sample, re-sample, start command and stop command
   belongs to a tick whose check found the breaker closed. *)
C17_OpenBreakerSkipsTick ==
    [][/\ (cpc = "check" /\ cpc' # "check")
          => (cpc' = "skip" <=> IsCircuitBreakerOpen(Breaker))
       /\ cpc = "skip"
          => /\ cpc' = "check"
             /\ breaker = "open"
             /\ instance_state' = instance_state
             /\ circuit_breaker_failures' = circuit_breaker_failures
             /\ tickLocals' = tickLocals
             /\ start_cmds = <<>> /\ stop_cmds = <<>> /\ resample = NoSample
       /\ (\/ cpc \in {"sample", "resample", "launch", "shutdown"}
           \/ Len(start_cmds') > Len(start_cmds)
           \/ Len(stop_cmds') > Len(stop_cmds))
          => breaker # "open"]_vars

\* a tick is being skipped while instances could be started
C17_Witness ==
    /\ cpc = "skip"
    /\ breaker = "open"
    /\ circuit_breaker_failures >= circuit_breaker_threshold
    /\ \E i \in Instances : instance_state[i] = "stopped"
    /\ \E i \in Instances : instance_state[i] = "running"

(* C18: the loop counts consecutive unhandled errors and terminates on the
   tenth.  An escaped error adds one to consecutive_errors and records a
   breaker failure, and start_monitoring re-raises exactly when the count
   reaches max_consecutive_errors; only a tick that completes its scaling
   logic resets the count (a tick skipped by the open breaker leaves it);
   once raised, the loop takes no further step.  So either the controller
   terminates, or ticks complete again and again. *)
C18_TerminatesAfterMaxErrors ==
    /\ [][/\ consecutive_errors' # consecutive_errors
             => \/ /\ cpc = "sample"
                   /\ consecutive_errors' = consecutive_errors + 1
                   /\ circuit_breaker_failures' > circuit_breaker_failures
                   /\ since_last_failure' <= ErrorSleep(consecutive_errors')
                   /\ cpc' = IF consecutive_errors' >= max_consecutive_errors
                             THEN "raised" ELSE "check"
                \/ /\ cpc = "sleep"
                   /\ consecutive_errors' = 0
          /\ cpc = "sleep" => consecutive_errors' = 0
          /\ cpc = "raised"
             => /\ cpc' = "raised"
                /\ consecutive_errors = max_consecutive_errors
                /\ UNCHANGED <<circuit_breaker_failures, consecutive_errors,
                               tickLocals, breaker>>]_vars
    /\ (<>(cpc = "raised") \/ []<>(cpc = "sleep"))

\* the loop has raised on its tenth consecutive error, after the errors had
\* opened the breaker on the way
C18_Witness ==
    /\ cpc = "raised"
    /\ consecutive_errors = max_consecutive_errors
    /\ circuit_breaker_failures >= circuit_breaker_threshold

----------------------------------------------------------------------------
(* Claims about the worker, continued *)

\* C19: when publishing the Result Message fails (send_response_with_retry
\* returns False and the run returns False), the job gets a Dead-Letter
\* Record, is not deleted, and its stored result remains.
C19_ResponseFailureDeadLetters ==
    [][\A w \in Workers :
          (ReturnsFalse(w) /\ worker[w].pc = "respond")
          => /\ Len(dlq') = Len(dlq) + 1
             /\ dlq'[Len(dlq')].original_message.request_id = worker[w].job
             /\ visibility' = visibility
             /\ output_bucket' = output_bucket
             /\ Stored(worker[w].job)]_vars

\* a job whose envelope has no filename
NoFilename(j) == job_body[j].json /\ job_body[j].filename = <<>>

(* C20: a job without a filename is dead-lettered at the parse, with no
   download, inference, upload or response attempt, and is not processed a
   second time: the parse of such a job ends the run with nothing stored or
   published and no record other than the job's own added to the DLQ, and
   no worker receives such a job once it has been dead-lettered. *)
C20_NoFilenameNotRetried ==
    /\ [][\A w \in Workers :
            (Steps(w) /\ worker[w].pc = "parse" /\ NoFilename(worker[w].job))
            => /\ worker'[w].pc \notin Processing
               /\ output_bucket' = output_bucket
               /\ published' = published
               /\ \/ dlq' = dlq
                  \/ /\ Len(dlq') = Len(dlq) + 1
                     /\ dlq'[Len(dlq')].original_message = job_body[worker[w].job]]_vars
    /\ [][\A w \in Workers :
            (Receives(w) /\ NoFilename(worker'[w].job))
            => ~DeadLettered(worker'[w].job)]_vars

(* C21: download_file_with_retry stops at a not-found answer without a
   further attempt (one attempt when the first answer is not-found), makes
   at most MAX_RETRIES attempts, returns True at the first attempt that
   succeeds, retries a transient ClientError until the attempts are used up,
   and the run that ends at a failed download leaves the job's Dead-Letter
   Record. *)
C21_DownloadRetryThenDeadLetter ==
    /\ [](\A answers \in [1..MAX_RETRIES -> DownloadAnswers] :
            LET r == download_file_with_retry(answers)
            IN  /\ answers[1] = "NoSuchKey" => (~r.ok /\ r.attempts = 1)
                /\ r.attempts \in 1..MAX_RETRIES
                /\ r.ok <=> answers[r.attempts] = "ok"
                /\ \A i \in 1..(r.attempts - 1) : answers[i] = "ClientError"
                /\ (~r.ok /\ answers[r.attempts] = "ClientError")
                       => r.attempts = MAX_RETRIES)
    /\ [][\A w \in Workers :
            (ReturnsFalse(w) /\ worker[w].pc = "download")
            => /\ Len(dlq') = Len(dlq) + 1
               /\ dlq'[Len(dlq')].original_message = job_body[worker[w].job]]_vars

\* worker w's run carries the sentinel result
NoFace(w) == worker[w].match_result = "No face detected"

(* C22: no identifiable result is not an error.  A worker at the inference
   can always take the no-result outcome, which dead-letters nothing, sets
   the sentinel "No face detected" and goes on to the upload; from there the
   run with the sentinel stores it under the base name, publishes it in the
   Result Message of the job and deletes the source job, as any result. *)
C22_NoFaceProceeds ==
    /\ [](\A w \in Workers :
            worker[w].pc = "infer"
            => ENABLED (Infer(w) /\ worker'[w].match_result = "No face detected"))
    /\ [][\A w \in Workers :
            /\ (worker[w].pc = "infer" /\ worker'[w].match_result = "No face detected")
               => /\ worker'[w].pc = "upload"
                  /\ dlq' = dlq
            /\ (NoFace(w) /\ worker[w].pc = "upload" /\ worker'[w].pc = "respond")
               => [key |-> BaseName(job_body[worker[w].job].filename),
                   body |-> "No face detected"] \in output_bucket'
            /\ (NoFace(w) /\ worker[w].pc = "respond" /\ worker'[w].pc = "delete")
               => published' = Append(published,
                      [filename |-> BaseName(job_body[worker[w].job].filename),
                       result |-> "No face detected",
                       request_id |-> worker[w].job])
            /\ (NoFace(w) /\ worker[w].pc = "delete" /\ worker'[w].pc = "more"
                  /\ visibility' # visibility)
               => visibility' = [visibility EXCEPT ![worker[w].job] = "deleted"]]_vars

\* a job went through with the sentinel in one delivery: it is stored,
\* published, deleted, and nothing was dead-lettered
C22_Witness ==
    \E j \in Jobs :
        /\ Deleted(j)
        /\ receives[j] = 1
        /\ dlq = <<>>
        /\ published = <<[filename |-> "a", result |-> "No face detected",
                          request_id |-> j]>>
        /\ output_bucket = {[key |-> "a", body |-> "No face detected"]}

----------------------------------------------------------------------------
(* Claims about the web server, continued *)

\* the logical_name key is the message's base name or starts with it and "."
NameMatches(key, m) ==
    key = <<m.filename>> \/ (Len(key) >= 2 /\ key[1] = m.filename)

(* C23: a Result Message writes at most one slot, the first matching one.
   When the Correlator handles message m, the keys stay as they are, every
   entry before the first match and every entry after it keeps its value,
   and the first matching entry, if there is one, holds "<base>:<result>". *)
C23_OneSlotPerMessage ==
    [][\A m \in response_queue :
          Handles(m)
          => /\ Len(pending_requests') = Len(pending_requests)
             /\ \A i \in 1..Len(pending_requests) :
                  /\ pending_requests'[i].k = pending_requests[i].k
                  /\ IF /\ NameMatches(pending_requests[i].k, m)
                        /\ \A h \in 1..(i - 1) : ~NameMatches(pending_requests[h].k, m)
                     THEN pending_requests'[i].v = <<m.filename, m.result>>
                     ELSE pending_requests'[i].v = pending_requests[i].v]_vars

\* a.png and a.jpg are both pending, one message was delivered once: the
\* first entry is filled and the other is empty
C23_Witness ==
    /\ Len(pending_requests) = 2
    /\ pending_requests[1].k[1] = pending_requests[2].k[1]
    /\ pending_requests[1].k # pending_requests[2].k
    /\ pending_requests[1].v # None
    /\ pending_requests[2].v = None
    /\ \E s \in Subs : /\ deliveries[s] = 1
                       /\ \A t \in Subs \ {s} : deliveries[t] = 0

\* submission s takes a step
SubSteps(s) == sub'[s] # sub[s]

\* submission t has inserted its Pending Entry and has not returned
HoldsEntry(t) == sub[t].pc \in {"enqueue", "wait"}

\* C24: no step of one submission removes, overwrites or consumes the
\* Pending Entry of another: whenever submission s steps, every other
\* submission that holds an entry still has it, with the value it had.
C24_SubmissionsIsolated ==
    [][\A s \in Subs : \A t \in Subs \ {s} :
          (SubSteps(s) /\ HoldsEntry(t))
          => /\ HasKey(pending_requests', sub[t].filename)
             /\ DictGet(pending_requests', sub[t].filename)
                  = DictGet(pending_requests, sub[t].filename)]_vars

----------------------------------------------------------------------------
(* Claims about the worker, continued *)

\* the Result Messages published for job j
ResultMessages(j) ==
    {i \in 1..Len(published) : published[i].request_id = j}

\* C25: the workers publish one Result Message per job, also when the
\* delete of the source job fails or the job is redelivered: no job ever has
\* two Result Messages.
C25_OneResultMessagePerJob ==
    \A j \in Jobs : Cardinality(ResultMessages(j)) <= 1

----------------------------------------------------------------------------
(* Claims about the controller, continued *)

\* the start command a step issues
Starts == Len(start_cmds') = Len(start_cmds) + 1
LastStart == start_cmds'[Len(start_cmds')]

\* C26: an answer "already starting/running" makes _launch_instance return
\* True; an answer "not found" makes it return False without adding to the
\* breaker's failure count, and the loop goes on to the next selected idle
\* instance when there is one.
C26_NotFoundFailsThatInstanceOnly ==
    [][Starts =>
         /\ LastStart.out = "incorrect_state"
              => /\ LastStart.ret
                 /\ circuit_breaker_failures' = circuit_breaker_failures
         /\ LastStart.out = "not_found"
              => /\ ~LastStart.ret
                 /\ circuit_breaker_failures' = circuit_breaker_failures
                 /\ since_last_failure' = since_last_failure
                 /\ cpc' = IF Len(start_cmds') <
                               Available(req_count, Len(active_instances),
                                         Len(idle_instances))
                           THEN "launch" ELSE "sleep"]_vars

\* a tick whose first start was answered "not found" and which went on to
\* start the next instance, and one whose start was answered "already running"
C26_Witness ==
    /\ Len(start_cmds) = 2
    /\ start_cmds[1].out = "not_found"
    /\ start_cmds[2].out = "incorrect_state"

----------------------------------------------------------------------------
(* Claims about the web tier, continued *)

\* submission s waits on a Pending Entry
Waits(s) == sub[s].pc = "wait" /\ HasKey(pending_requests, sub[s].filename)

\* C27: the result a caller is given comes from the job of its own
\* submission: when the Correlator handles the Result Message of request_id r,
\* the entry a different submission waits on keeps its value.
C27_ResultFromOwnJob ==
    [][\A m \in response_queue : \A s \in Subs \ {m.request_id} :
         (Handles(m) /\ Waits(s))
         => DictGet(pending_requests', sub[s].filename)
              = DictGet(pending_requests, sub[s].filename)]_vars

----------------------------------------------------------------------------
(* Claims about the worker under fair scheduling *)

\* C28: with workers running fairly, every job is eventually removed from
\* the request queue, the jobs that were dead-lettered included: a job with a
\* Dead-Letter Record is eventually deleted.
C28_DeadLetteredEventuallyRemoved ==
    \A j \in Jobs : DeadLettered(j) ~> Deleted(j)


\* C29: a message on the response queue that the Correlator cannot process
\* (not JSON, no filename, no result) is removed from the queue when the
\* Correlator receives it.
C29_UnprocessableRemoved ==
    [][unprocessable_receives' > unprocessable_receives
         => \E b \in unprocessable : b \notin unprocessable']_vars


----------------------------------------------------------------------------
(* Claims about the controller's failed queue reads *)

\* C30: a tick in which a queue-depth read failed issues no stop command.
C30_NoStopAfterFailedRead ==
    read_failed => stop_cmds = <<>>

====
